---- MODULE Spec2Model ----
(***************************************************************************)
(* RW-Payment-Utils: the Flutterwave card-gateway service                  *)
(* (src/flutterwaveApiUtils.ts) and the MTN MoMo service                   *)
(* (src/unnamed/part_000), as state machines.  One invocation of a public  *)
(* operation is in flight at a time; an asynchronous operation is one      *)
(* action up to its await and one action from the settling of the awaited  *)
(* request to the operation's return or throw.                             *)
(***************************************************************************)
EXTENDS Naturals, Sequences, FiniteSets, TLC

VARIABLES
    env,        \* process.env: variable name -> string or Undefined
    envWrites,  \* number of writes to process.env since process start
    flw,        \* the FlutterwaveApiService singleton
    momo,       \* the MomoService singleton
    pc,         \* position of the invocation in flight
    op,         \* public operation of the invocation in flight
    args,       \* its arguments
    locals,     \* its local variables that live across an await
    sent,       \* HTTP requests the invocation has issued, in order
    settled,    \* how the requests it awaited have settled, in order
    outcome,    \* what the invocation handed its caller
    log         \* logger entries the invocation has written, in order

vars ==
    <<env, envWrites, flw, momo, pc, op, args, locals, sent, settled, outcome, log>>

----------------------------------------------------------------------------
(* Bounds of the model *)

MaxEnvWrites == 1

----------------------------------------------------------------------------
(* JavaScript values *)

Undefined == "<undefined>"

\* truthiness of a string | undefined
Truthy(x) == x # Undefined /\ x # ""

\* a || b
Or(a, b) == IF Truthy(a) THEN a ELSE b

BAD_REQUEST == 400
INTERNAL_SERVER_ERROR == 500

----------------------------------------------------------------------------
(* Inputs: the process environment *)

FlwEnvNames ==
    {"FLUTTERWAVE_PUBLIC_KEY", "FLUTTERWAVE_SECRET_KEY",
     "FLUTTERWAVE_ENCRYPTION_KEY", "FLUTTERWAVE_REDIRECT_URL",
     "FLUTTERWAVE_TEST_MODE"}

MomoEnvNames ==
    {"MOMO_BASE_URL", "MOMO_PRIMARY_KEY", "MOMO_USERNAME", "MOMO_PASSWORD",
     "MOMO_ENV"}

EnvNames == FlwEnvNames \cup MomoEnvNames

\* the values an environment variable takes in the model
EnvValues(n) ==
    CASE n = "FLUTTERWAVE_PUBLIC_KEY"     -> {Undefined, "", "FLWPUBK-1"}
      [] n = "FLUTTERWAVE_SECRET_KEY"     -> {Undefined, "", "FLWSECK-1"}
      [] n = "FLUTTERWAVE_ENCRYPTION_KEY" -> {Undefined, "", "key-of-24-bytes", "key-of-9b"}
      [] n = "FLUTTERWAVE_REDIRECT_URL"   -> {Undefined, "", "https://a.example/cb", "https://b.example/cb"}
      [] n = "FLUTTERWAVE_TEST_MODE"      -> {Undefined, "true"}
      [] n = "MOMO_BASE_URL"              -> {Undefined, "https://sandbox.momo.example/collection"}
      [] n = "MOMO_PRIMARY_KEY"           -> {Undefined, "", "momo-primary"}
      [] n = "MOMO_USERNAME"              -> {Undefined, "", "momo-user"}
      [] n = "MOMO_PASSWORD"              -> {Undefined, "", "momo-pass"}
      [] n = "MOMO_ENV"                   -> {Undefined, "sandbox"}

\* the credentials each constructor insists on
FlwCredentialNames ==
    {"FLUTTERWAVE_PUBLIC_KEY", "FLUTTERWAVE_SECRET_KEY",
     "FLUTTERWAVE_ENCRYPTION_KEY", "FLUTTERWAVE_REDIRECT_URL"}

MomoCredentialNames == {"MOMO_PRIMARY_KEY", "MOMO_USERNAME", "MOMO_PASSWORD"}

----------------------------------------------------------------------------
(* Inputs: what the gateway answers *)

\* A JSON body of the gateway: top-level status and message, data.status,
\* data.flw_ref and meta.authorization.mode (Undefined: the field is absent).
Body(status, message, data_status, flw_ref, mode) ==
    [status |-> status, message |-> message, data_status |-> data_status,
     flw_ref |-> flw_ref, mode |-> mode]

Bodies ==
    { Body(s, m, d, Undefined, Undefined) :
        s \in {"success", "error"},
        m \in {Undefined, "", "Invalid card"},
        d \in {Undefined, "successful", "failed"} }
    \cup
    { Body(s, m, "pending", f, a) :
        s \in {"success", "error"},
        m \in {"Charge initiated"},
        f \in {Undefined, "FLW123"},
        a \in {Undefined, "otp", "pin"} }

ErrorBodies ==
    { Body("error", m, Undefined, Undefined, Undefined) :
        m \in {Undefined, "", "Invalid card"} }

\* every string a body holds
BodyStrs(b) == {b.status, b.message, b.data_status, b.flw_ref, b.mode} \ {Undefined}

\* How an axios request settles: it resolves with a body, or rejects with an
\* error that carries the response body (a non-2xx answer with a JSON body) or
\* carries none (no answer, a timeout, an answer with an empty body).
Resolved(b) == [ok |-> TRUE, body |-> b, message |-> Undefined, hasData |-> FALSE]

Rejected(hasData, b, message) ==
    [ok |-> FALSE, body |-> b, message |-> message, hasData |-> hasData]

NoBody == Body(Undefined, Undefined, Undefined, Undefined, Undefined)

Settlements ==
    { Resolved(b) : b \in Bodies }
    \cup { Rejected(TRUE, b, "Request failed with status code 400") : b \in ErrorBodies }
    \cup { Rejected(FALSE, NoBody, m) :
            m \in {"Network Error", "timeout of 0ms exceeded",
                   "Request failed with status code 500"} }

\* the error object a rejected request throws into the handler: error.message,
\* and error.response.data when there is one
AxiosError(s) ==
    [isApiError |-> FALSE, statusCode |-> 0, message |-> s.message,
     hasData |-> s.hasData, data |-> s.body]

\* new Error(message), as a library throws it
Error(message) ==
    [isApiError |-> FALSE, statusCode |-> 0, message |-> message,
     hasData |-> FALSE, data |-> NoBody]

\* new ApiError(statusCode, message): an Error whose message is the argument
\* (an undefined argument leaves the message empty) and which has no `response`
ApiError(statusCode, message) ==
    [isApiError |-> TRUE, statusCode |-> statusCode,
     message    |-> IF message = Undefined THEN "" ELSE message,
     hasData    |-> FALSE,
     data       |-> NoBody]

----------------------------------------------------------------------------
(* The invocation in flight *)

NoArgs == [none |-> TRUE]
NoLocals == [tokenResponse |-> [access_token |-> Undefined]]

NoResult == [body |-> NoBody]

NoOutcome ==
    [kind |-> "none", result |-> NoResult, statusCode |-> 0, message |-> Undefined,
     logged |-> 0]

\* the operation returned `result` to its caller
Returned(result) ==
    [kind |-> "returned", result |-> result, statusCode |-> 0, message |-> Undefined,
     logged |-> 0]

\* the operation threw `apiError` to its caller, having written `logged` entries
Thrown(apiError, logged) ==
    [kind |-> "thrown", result |-> NoResult, statusCode |-> apiError.statusCode,
     message |-> apiError.message, logged |-> logged]

\* logger.error(label, value) / logger.info(text): the entry keeps what kind of
\* value was written and every string the value holds
LogEntry(level, label, what, strs) ==
    [level |-> level, label |-> label, what |-> what, strs |-> strs]

\* error.response?.data || error.message, as the logger receives it
loggedValue(error) ==
    IF error.hasData
    THEN [what |-> "response_body", strs |-> BodyStrs(error.data)]
    ELSE [what |-> "error_message", strs |-> {error.message}]

\* normalizedMessage with error.message left out of the chain
normalizedMessage_withoutErrorMessage(error, generic) ==
    Or(IF error.hasData THEN error.data.message ELSE Undefined, generic)

\* error.response?.data?.message || error.message || generic
normalizedMessage(error, generic) ==
    Or(Or(IF error.hasData THEN error.data.message ELSE Undefined, error.message),
       generic)

\* catchBlock that posts a rejected request once more instead of throwing
catchBlock_retry(label, generic, error, s, l) ==
    /\ log' = Append(l, LogEntry("error", label, loggedValue(error).what,
                                 loggedValue(error).strs))
    /\ IF ~error.isApiError /\ Len(s) = 1
       THEN /\ sent' = Append(s, s[1])
            /\ outcome' = NoOutcome
            /\ pc' = "awaiting"
       ELSE /\ sent' = s
            /\ outcome' = Thrown(ApiError(BAD_REQUEST, normalizedMessage(error, generic)),
                                 Len(l) + 1)
            /\ pc' = "done"

\* The catch block of a card-gateway operation: log, then throw the normalized
\* ApiError.  `s` and `l` are the requests issued and the entries logged so far.
catchBlock(label, generic, error, s, l) ==
    /\ log' = Append(l, LogEntry("error", label, loggedValue(error).what,
                                 loggedValue(error).strs))
    /\ outcome' = Thrown(ApiError(BAD_REQUEST, normalizedMessage(error, generic)),
                         Len(l) + 1)
    /\ sent' = s
    /\ pc' = "done"

----------------------------------------------------------------------------
(* FlutterwaveApiService *)

FlwUnconstructed ==
    [state   |-> "unconstructed",
     config  |-> [publicKey |-> Undefined, secretKey |-> Undefined,
                  encryptionKey |-> Undefined, redirectUrl |-> Undefined,
                  isTestMode |-> FALSE],
     baseUrl |-> Undefined,
     headers |-> [ContentType |-> Undefined, Authorization |-> <<>>],
     error   |-> Undefined]

\* flwConfigIncomplete without the test of the redirect URL
flwConfigIncomplete_withoutRedirectUrl(publicKey, secretKey, encryptionKey, redirectUrl) ==
    \/ ~Truthy(publicKey)
    \/ ~Truthy(secretKey)
    \/ ~Truthy(encryptionKey)

\* the constructor's test of the four values it read from process.env
flwConfigIncomplete(publicKey, secretKey, encryptionKey, redirectUrl) ==
    \/ ~Truthy(publicKey)
    \/ ~Truthy(secretKey)
    \/ ~Truthy(encryptionKey)
    \/ ~Truthy(redirectUrl)

\* new FlutterwaveApiService(), run once when the module is loaded
FlutterwaveApiService ==
    /\ flw.state = "unconstructed"
    /\ LET publicKey     == env["FLUTTERWAVE_PUBLIC_KEY"]
           secretKey     == env["FLUTTERWAVE_SECRET_KEY"]
           encryptionKey == env["FLUTTERWAVE_ENCRYPTION_KEY"]
           redirectUrl   == env["FLUTTERWAVE_REDIRECT_URL"]
       IN  IF flwConfigIncomplete(publicKey, secretKey, encryptionKey, redirectUrl)
           THEN flw' = [flw EXCEPT
                    !.state = "failed",
                    !.error = ApiError(INTERNAL_SERVER_ERROR,
                                  "Flutterwave configuration is incomplete").message]
           ELSE flw' =
                  [state   |-> "ready",
                   config  |-> [publicKey |-> publicKey, secretKey |-> secretKey,
                                encryptionKey |-> encryptionKey,
                                redirectUrl |-> redirectUrl,
                                isTestMode |-> (env["FLUTTERWAVE_TEST_MODE"] = "true")],
                   baseUrl |-> "https://api.flutterwave.com/v3",
                   headers |-> [ContentType |-> "application/json",
                                Authorization |-> <<"Bearer", secretKey>>],
                   error   |-> Undefined]
    /\ UNCHANGED <<env, envWrites, momo, pc, op, args, locals, sent, settled, outcome, log>>

\* node-forge's 3DES takes a key of 24 bytes and throws on any other size
tripleDesKeyOk(key) == key = "key-of-24-bytes"

\* encryptCardData(payload): 3DES-ECB of JSON.stringify(payload) under
\* config.encryptionKey, base64-encoded.  The ciphertext is modelled by the pair
\* that determines it (ECB with no IV is deterministic, and decryption under the
\* key gives the payload back).
encryptCardData(payload) ==
    IF tripleDesKeyOk(flw.config.encryptionKey)
    THEN [threw |-> FALSE,
          value |-> [alg |-> "3DES-ECB", key |-> flw.config.encryptionKey,
                     plaintext |-> payload],
          error |-> Error(Undefined)]
    ELSE [threw |-> TRUE,
          value |-> [alg |-> "3DES-ECB", key |-> Undefined, plaintext |-> payload],
          error |-> Error("Invalid Triple-DES key size: 72")]

\* AuthorizationMode
PIN == "pin"
OTP == "otp"
REDIRECT == "redirect"
NONE == "none"
AVS_NOAUTH == "avs_noauth"

\* data.authorization of a CardPaymentData (present = FALSE: the field is absent)
Authorization(present, mode, pin, otp, city, address, state, country, zipcode) ==
    [present |-> present, mode |-> mode, pin |-> pin, otp |-> otp, city |-> city,
     address |-> address, state |-> state, country |-> country, zipcode |-> zipcode]

NoAuthorization ==
    Authorization(FALSE, Undefined, Undefined, Undefined, Undefined, Undefined,
                  Undefined, Undefined, Undefined)

AuthorizationInputs ==
    { NoAuthorization,
      Authorization(TRUE, PIN, "3310", Undefined, Undefined, Undefined, Undefined,
                    Undefined, Undefined),
      Authorization(TRUE, PIN, Undefined, Undefined, Undefined, Undefined, Undefined,
                    Undefined, Undefined),
      Authorization(TRUE, OTP, Undefined, "12345", Undefined, Undefined, Undefined,
                    Undefined, Undefined),
      Authorization(TRUE, AVS_NOAUTH, Undefined, Undefined, "Kigali", "KN 4 Ave",
                    "Kigali City", "RW", "00000") }

CardPaymentInputs ==
    { [card_number |-> "5531886652142950", cvv |-> "564", expiry_month |-> "09",
       expiry_year |-> "32", amount |-> 100, email |-> "a@b.rw", tx_ref |-> "tx-1",
       currency |-> c, fullname |-> "A B", preauthorize |-> p, authorization |-> a] :
        c \in {Undefined}, p \in BOOLEAN, a \in AuthorizationInputs }

\* the authorization object chargeCard puts in the card payload
cardAuthorization(a) ==
    IF ~a.present
    THEN NoAuthorization
    ELSE Authorization(TRUE, a.mode,
            IF a.mode = PIN /\ Truthy(a.pin) THEN a.pin ELSE Undefined,
            IF a.mode = OTP /\ Truthy(a.otp) THEN a.otp ELSE Undefined,
            IF Truthy(a.city) THEN a.city ELSE Undefined,
            IF Truthy(a.address) THEN a.address ELSE Undefined,
            IF Truthy(a.state) THEN a.state ELSE Undefined,
            IF Truthy(a.country) THEN a.country ELSE Undefined,
            IF Truthy(a.zipcode) THEN a.zipcode ELSE Undefined)

\* the plaintext card payload chargeCard builds
cardData(data) ==
    [card_number  |-> data.card_number,
     cvv          |-> data.cvv,
     expiry_month |-> data.expiry_month,
     expiry_year  |-> data.expiry_year,
     email        |-> data.email,
     currency     |-> Or(data.currency, "RWF"),
     amount       |-> ToString(data.amount),
     tx_ref       |-> data.tx_ref,
     fullname     |-> data.fullname,
     redirect_url |-> env["FLUTTERWAVE_REDIRECT_URL"],
     payment_type |-> "card",
     preauthorize |-> data.preauthorize,
     device_fingerprint |-> "device_fingerprint",
     client_ip    |-> "127.0.0.1",
     authorization |-> cardAuthorization(data.authorization)]

\* an HTTP request as axios sends it
Request(method, url, headers, body) ==
    [method |-> method, url |-> url, headers |-> headers, body |-> body]

\* chargeCard's catch block with the card payload handed to the logger
chargeCard_catch_logsCardData(error, s, l) ==
    /\ log' = Append(l, LogEntry("error", "Flutterwave card charge failed:", "card_data",
                        IF Len(s) = 0
                        THEN {error.message}
                        ELSE {s[1].body.client.plaintext.card_number,
                              s[1].body.client.plaintext.cvv}))
    /\ outcome' = Thrown(ApiError(BAD_REQUEST,
                            normalizedMessage(error, "Card charge failed")), Len(l) + 1)
    /\ sent' = s
    /\ pc' = "done"

\* the catch block of chargeCard
chargeCard_catch(error, s, l) ==
    catchBlock("Flutterwave card charge failed:", "Card charge failed", error, s, l)

\* chargeCard up to its await: build and encrypt the payload, post the envelope
chargeCard(data) ==
    /\ flw.state = "ready"
    /\ pc \in {"idle", "done"}
    /\ op' = "chargeCard"
    /\ args' = data
    /\ locals' = NoLocals
    /\ settled' = <<>>
    /\ LET encryptedData == encryptCardData(cardData(data))
       IN  IF encryptedData.threw
           THEN chargeCard_catch(encryptedData.error, <<>>, <<>>)
           ELSE /\ sent' = << Request("POST", <<flw.baseUrl, "/charges?type=card">>,
                                 flw.headers,
                                 [client |-> encryptedData.value,
                                  client_ip |-> cardData(data).client_ip,
                                  device_fingerprint |-> cardData(data).device_fingerprint,
                                  alg |-> "3DES-24"]) >>
                /\ pc' = "awaiting"
                /\ log' = <<>>
                /\ outcome' = NoOutcome
    /\ UNCHANGED <<env, envWrites, flw, momo>>

\* chargeCard_result without the test of data.preauthorize
chargeCard_result_anyPending(data, body) ==
    IF body.data_status = "pending" /\ Truthy(body.mode)
    THEN [body |-> body, requires_validation |-> TRUE,
          validation_mode |-> body.mode, flw_ref |-> body.flw_ref]
    ELSE [body |-> body, requires_validation |-> FALSE,
          validation_mode |-> Undefined, flw_ref |-> Undefined]

\* what chargeCard returns for a body whose top-level status is not "error"
chargeCard_result(data, body) ==
    IF data.preauthorize /\ body.data_status = "pending" /\ Truthy(body.mode)
    THEN [body |-> body, requires_validation |-> TRUE,
          validation_mode |-> body.mode, flw_ref |-> body.flw_ref]
    ELSE [body |-> body, requires_validation |-> FALSE,
          validation_mode |-> Undefined, flw_ref |-> Undefined]

\* response.data.status === 'error'
gatewayError(body) == body.status = "error"

\* chargeCard from the settling of its request
chargeCard_settle(s) ==
    /\ pc = "awaiting"
    /\ op = "chargeCard"
    /\ settled' = Append(settled, s)
    /\ IF ~s.ok
       THEN chargeCard_catch(AxiosError(s), sent, log)
       ELSE IF gatewayError(s.body)
       THEN chargeCard_catch(ApiError(BAD_REQUEST, s.body.message), sent, log)
       ELSE /\ outcome' = Returned(chargeCard_result(args, s.body))
            /\ log' = IF chargeCard_result(args, s.body).requires_validation
                      THEN Append(log, LogEntry("info", "Preauthorization requires validation",
                                                "auth_mode", {s.body.mode}))
                      ELSE log
            /\ pc' = "done"
            /\ sent' = sent
    /\ UNCHANGED <<env, envWrites, flw, momo, op, args, locals>>

\* An operation that issues one request and awaits it: the part up to the await
issue(name, a, request) ==
    /\ flw.state = "ready"
    /\ pc \in {"idle", "done"}
    /\ op' = name
    /\ args' = a
    /\ locals' = NoLocals
    /\ settled' = <<>>
    /\ sent' = <<request>>
    /\ pc' = "awaiting"
    /\ log' = <<>>
    /\ outcome' = NoOutcome
    /\ UNCHANGED <<env, envWrites, flw, momo>>

\* ... and the part from the settling of the request: throw on a rejected
\* request and on a body of status "error", return the body otherwise
settle(name, label, generic, s) ==
    /\ pc = "awaiting"
    /\ op = name
    /\ settled' = Append(settled, s)
    /\ IF ~s.ok
       THEN catchBlock(label, generic, AxiosError(s), sent, log)
       ELSE IF gatewayError(s.body)
       THEN catchBlock(label, generic, ApiError(BAD_REQUEST, s.body.message), sent, log)
       ELSE /\ outcome' = Returned([body |-> s.body])
            /\ log' = log
            /\ pc' = "done"
            /\ sent' = sent
    /\ UNCHANGED <<env, envWrites, flw, momo, op, args, locals>>

TokenizedChargeInputs ==
    { [token |-> "flw-t1nf-f9b3bf384cd30d6fca42b6df9d27bd2f-m03k", email |-> "a@b.rw",
       amount |-> 100, tx_ref |-> "tx-2", currency |-> c, narration |-> "n"] :
        c \in {Undefined, "USD"} }

chargeWithToken(data) ==
    issue("chargeWithToken", data,
          Request("POST", <<flw.baseUrl, "/tokenized-charges">>, flw.headers,
                  [token |-> data.token,
                   currency |-> Or(data.currency, "RWF"),
                   amount |-> ToString(data.amount),
                   email |-> data.email,
                   tx_ref |-> data.tx_ref,
                   redirect_url |-> flw.config.redirectUrl]))

chargeWithToken_settle(s) ==
    settle("chargeWithToken", "Flutterwave tokenized charge failed:",
           "Tokenized charge failed", s)

validateCharge(flw_ref, otp, type) ==
    issue("validateCharge", [flw_ref |-> flw_ref, otp |-> otp, type |-> type],
          Request("POST", <<flw.baseUrl, "/validate-charge">>, flw.headers,
                  [otp |-> otp, flw_ref |-> flw_ref, type |-> type]))

validateCharge_settle(s) ==
    settle("validateCharge", "Flutterwave charge validation failed:",
           "Charge validation failed", s)

getCardBIN(cardNumber) ==
    issue("getCardBIN", [cardNumber |-> cardNumber],
          Request("GET", <<flw.baseUrl, "/card-bins/", cardNumber>>, flw.headers,
                  [none |-> TRUE]))

getCardBIN_settle(s) ==
    settle("getCardBIN", "Flutterwave card BIN lookup failed:",
           "Card BIN lookup failed", s)

verifyPayment(transactionId) ==
    issue("verifyPayment", [transactionId |-> transactionId],
          Request("GET", <<flw.baseUrl, "/transactions/", transactionId, "/verify">>,
                  flw.headers, [none |-> TRUE]))

verifyPayment_settle(s) ==
    settle("verifyPayment", "Flutterwave payment verification failed:",
           "Payment verification failed", s)

voidPreauthorization(transactionId) ==
    issue("voidPreauthorization", [transactionId |-> transactionId],
          Request("POST", <<flw.baseUrl, "/charges/", transactionId, "/void">>,
                  flw.headers, [empty |-> TRUE]))

voidPreauthorization_settle(s) ==
    settle("voidPreauthorization", "Flutterwave void preauthorization failed:",
           "Void preauthorization failed", s)

FlwOps ==
    {"chargeCard", "chargeWithToken", "validateCharge", "getCardBIN",
     "verifyPayment", "voidPreauthorization"}

----------------------------------------------------------------------------
(* MomoService *)

MomoUnconstructed ==
    [state  |-> "unconstructed",
     config |-> [baseUrl |-> Undefined, primaryKey |-> Undefined,
                 username |-> Undefined, password |-> Undefined, env |-> Undefined],
     error  |-> Undefined]

\* validateConfig(): TRUE when it throws
validateConfig(config) ==
    \/ ~Truthy(config.primaryKey)
    \/ ~Truthy(config.username)
    \/ ~Truthy(config.password)

\* new MomoService(), run once when the module is loaded
MomoService ==
    /\ momo.state = "unconstructed"
    /\ LET config ==
             [baseUrl    |-> Or(env["MOMO_BASE_URL"],
                                "https://proxy.momoapi.mtn.co.rw/collection"),
              primaryKey |-> Or(env["MOMO_PRIMARY_KEY"], ""),
              username   |-> Or(env["MOMO_USERNAME"], ""),
              password   |-> Or(env["MOMO_PASSWORD"], ""),
              env        |-> Or(env["MOMO_ENV"], "mtnrwanda")]
       IN  IF validateConfig(config)
           THEN momo' = [state |-> "failed", config |-> config,
                         error |-> ApiError(INTERNAL_SERVER_ERROR,
                                       "MTN MOMO configuration is incomplete").message]
           ELSE momo' = [state |-> "ready", config |-> config, error |-> Undefined]
    /\ UNCHANGED <<env, envWrites, flw, pc, op, args, locals, sent, settled, outcome, log>>

\* getHeaders with a token kept from an earlier invocation
getHeaders_staleToken(token) ==
    [OcpApimSubscriptionKey |-> momo.config.primaryKey,
     Authorization      |-> IF Truthy(token) THEN <<"Bearer", "token-A">> ELSE <<>>,
     XTargetEnvironment |-> IF Truthy(token) THEN momo.config.env ELSE Undefined,
     XReferenceId       |-> Undefined,
     ContentType        |-> Undefined]

\* getHeaders(token?)
getHeaders(token) ==
    [OcpApimSubscriptionKey |-> momo.config.primaryKey,
     Authorization      |-> IF Truthy(token) THEN <<"Bearer", token>> ELSE <<>>,
     XTargetEnvironment |-> IF Truthy(token) THEN momo.config.env ELSE Undefined,
     XReferenceId       |-> Undefined,
     ContentType        |-> Undefined]

\* A body of the MoMo API: a token response (access_token), a payment record
\* (status) or an error body (message)
MomoBody(access_token, status, message) ==
    [access_token |-> access_token, status |-> status, message |-> message]

NoMomoBody == MomoBody(Undefined, Undefined, Undefined)

MomoBodyStrs(b) == {b.access_token, b.status, b.message} \ {Undefined}

MomoRejections ==
    { Rejected(TRUE, MomoBody(Undefined, Undefined, m),
               "Request failed with status code 401") :
        m \in {Undefined, "Access denied due to invalid subscription key."} }
    \cup { Rejected(FALSE, NoMomoBody, "Network Error") }

TokenSettlements ==
    { Resolved(MomoBody(t, Undefined, Undefined)) : t \in {Undefined, "token-A", "token-B"} }
    \cup MomoRejections

PaymentSettlements ==
    { Resolved(MomoBody(Undefined, st, Undefined)) :
        st \in {Undefined, "SUCCESSFUL", "FAILED", "PENDING"} }
    \cup MomoRejections

MomoAxiosError(s) ==
    [isApiError |-> FALSE, statusCode |-> 0, message |-> s.message,
     hasData |-> s.hasData, data |-> s.body]

\* The catch block of a MoMo operation: log error.response?.data ||
\* error.message, then throw ApiError(BAD_REQUEST,
\* error.response?.data?.message || generic).  Gives the entry and the error.
momoCatch(label, generic, error) ==
    [entry  |-> LogEntry("error", label,
                    IF error.hasData THEN "response_body" ELSE "error_message",
                    IF error.hasData THEN MomoBodyStrs(error.data) ELSE {error.message}),
     thrown |-> ApiError(BAD_REQUEST,
                    Or(IF error.hasData THEN error.data.message ELSE Undefined, generic))]

generateToken_catch(error) ==
    momoCatch("MOMO token generation failed:", "Token generation failed", error)

requestPayment_catch(error) ==
    momoCatch("MOMO payment request failed:", "Payment request failed", error)

checkPaymentStatus_catch(error) ==
    momoCatch("MOMO payment status check failed:", "Payment status check failed", error)

\* the request generateToken posts
tokenRequest ==
    Request("POST", <<momo.config.baseUrl, "/token/">>, getHeaders(Undefined),
            [auth |-> [username |-> momo.config.username,
                       password |-> momo.config.password]])

\* An operation begins, and runs into generateToken's await.  generateToken is
\* public; requestPayment and checkPaymentStatus call it first.
momoBegin(name, a) ==
    /\ momo.state = "ready"
    /\ pc \in {"idle", "done"}
    /\ op' = name
    /\ args' = a
    /\ locals' = NoLocals
    /\ settled' = <<>>
    /\ sent' = <<tokenRequest>>
    /\ pc' = "awaiting_token"
    /\ log' = <<>>
    /\ outcome' = NoOutcome
    /\ UNCHANGED <<env, envWrites, flw, momo>>

generateToken == momoBegin("generateToken", NoArgs)

\* generateToken, called by a client, from the settling of its request
generateToken_settle(s) ==
    /\ pc = "awaiting_token"
    /\ op = "generateToken"
    /\ settled' = Append(settled, s)
    /\ IF s.ok
       THEN /\ outcome' = Returned([body |-> s.body])
            /\ log' = log
       ELSE /\ log' = Append(log, generateToken_catch(MomoAxiosError(s)).entry)
            /\ outcome' = Thrown(generateToken_catch(MomoAxiosError(s)).thrown,
                                 Len(log) + 1)
    /\ pc' = "done"
    /\ UNCHANGED <<env, envWrites, flw, momo, op, args, locals, sent>>

\* phoneNumber.replace("+", ""): the string without its first "+"
replacePlus(str) ==
    IF \E i \in 1..Len(str) : str[i] = "+"
    THEN LET i == CHOOSE k \in 1..Len(str) :
                    /\ str[k] = "+"
                    /\ \A j \in 1..(k - 1) : str[j] # "+"
         IN  SubSeq(str, 1, i - 1) \o SubSeq(str, i + 1, Len(str))
    ELSE str

RequestPaymentInputs ==
    { [amount |-> 500, phoneNumber |-> ph, externalId |-> "order-7",
       externalReference |-> ref, payerMessage |-> pm, payeeNote |-> Undefined] :
        ph \in { <<"+", "2", "5", "0", "7">>, <<"2", "5", "0", "7">> },
        ref \in {"ref-1", "ref-2"},
        pm \in {Undefined, "fees"} }

requestPayment(a) == momoBegin("requestPayment", a)

\* the request requestPayment posts once it holds the token response
requestToPay(a, tokenResponse) ==
    Request("POST", <<momo.config.baseUrl, "/v1_0/requesttopay">>,
            [getHeaders(tokenResponse.access_token) EXCEPT
                !.XReferenceId = a.externalReference,
                !.ContentType = "application/json"],
            [amount       |-> a.amount,
             currency     |-> IF momo.config.env = "sandbox" THEN "EUR" ELSE "RWF",
             externalId   |-> a.externalId,
             payer        |-> [partyIdType |-> "MSISDN",
                               partyId |-> replacePlus(a.phoneNumber)],
             payerMessage |-> Or(a.payerMessage, ""),
             payeeNote    |-> Or(a.payeeNote, "")])

\* requestPayment from the settling of generateToken's request: a token failure
\* is logged and thrown by generateToken, then caught, logged and thrown again
\* by requestPayment; a token response is followed by the requesttopay post
requestPayment_token(s) ==
    /\ pc = "awaiting_token"
    /\ op = "requestPayment"
    /\ settled' = Append(settled, s)
    /\ IF s.ok
       THEN /\ locals' = [tokenResponse |-> s.body]
            /\ sent' = Append(sent, requestToPay(args, s.body))
            /\ pc' = "awaiting"
            /\ UNCHANGED <<log, outcome>>
       ELSE LET inner == generateToken_catch(MomoAxiosError(s))
                outer == requestPayment_catch(inner.thrown)
            IN  /\ log' = log \o <<inner.entry, outer.entry>>
                /\ outcome' = Thrown(outer.thrown, Len(log) + 2)
                /\ pc' = "done"
                /\ UNCHANGED <<locals, sent>>
    /\ UNCHANGED <<env, envWrites, flw, momo, op, args>>

\* requestPayment from the settling of the requesttopay post
requestPayment_settle(s) ==
    /\ pc = "awaiting"
    /\ op = "requestPayment"
    /\ settled' = Append(settled, s)
    /\ IF s.ok
       THEN /\ outcome' = Returned([referenceId |-> args.externalReference])
            /\ log' = log
       ELSE /\ log' = Append(log, requestPayment_catch(MomoAxiosError(s)).entry)
            /\ outcome' = Thrown(requestPayment_catch(MomoAxiosError(s)).thrown,
                                 Len(log) + 1)
    /\ pc' = "done"
    /\ UNCHANGED <<env, envWrites, flw, momo, op, args, locals, sent>>

checkPaymentStatus(referenceId) ==
    momoBegin("checkPaymentStatus", [referenceId |-> referenceId])

\* the request checkPaymentStatus sends once it holds the token response
requestToPayStatus(a, tokenResponse) ==
    Request("GET", <<momo.config.baseUrl, "/v1_0/requesttopay/", a.referenceId>>,
            getHeaders(tokenResponse.access_token), [none |-> TRUE])

checkPaymentStatus_token(s) ==
    /\ pc = "awaiting_token"
    /\ op = "checkPaymentStatus"
    /\ settled' = Append(settled, s)
    /\ IF s.ok
       THEN /\ locals' = [tokenResponse |-> s.body]
            /\ sent' = Append(sent, requestToPayStatus(args, s.body))
            /\ pc' = "awaiting"
            /\ UNCHANGED <<log, outcome>>
       ELSE LET inner == generateToken_catch(MomoAxiosError(s))
                outer == checkPaymentStatus_catch(inner.thrown)
            IN  /\ log' = log \o <<inner.entry, outer.entry>>
                /\ outcome' = Thrown(outer.thrown, Len(log) + 2)
                /\ pc' = "done"
                /\ UNCHANGED <<locals, sent>>
    /\ UNCHANGED <<env, envWrites, flw, momo, op, args>>

checkPaymentStatus_settle(s) ==
    /\ pc = "awaiting"
    /\ op = "checkPaymentStatus"
    /\ settled' = Append(settled, s)
    /\ IF s.ok
       THEN /\ outcome' = Returned([body |-> s.body])
            /\ log' = log
       ELSE /\ log' = Append(log, checkPaymentStatus_catch(MomoAxiosError(s)).entry)
            /\ outcome' = Thrown(checkPaymentStatus_catch(MomoAxiosError(s)).thrown,
                                 Len(log) + 1)
    /\ pc' = "done"
    /\ UNCHANGED <<env, envWrites, flw, momo, op, args, locals, sent>>

MomoOps == {"generateToken", "requestPayment", "checkPaymentStatus"}

----------------------------------------------------------------------------
(* The environment of the process *)

\* process.env[n] = v, by any code of the process, at any time
SetEnv(n, v) ==
    /\ envWrites < MaxEnvWrites
    /\ v # env[n]
    /\ env' = [env EXCEPT ![n] = v]
    /\ envWrites' = envWrites + 1
    /\ UNCHANGED <<flw, momo, pc, op, args, locals, sent, settled, outcome, log>>

InitProcess ==
    /\ envWrites = 0
    /\ flw = FlwUnconstructed
    /\ momo = MomoUnconstructed
    /\ pc = "idle"
    /\ op = "none"
    /\ args = NoArgs
    /\ locals = NoLocals
    /\ sent = <<>>
    /\ settled = <<>>
    /\ outcome = NoOutcome
    /\ log = <<>>

\* the card-gateway service in a process whose environment holds any value for
\* each variable the service reads
Init ==
    /\ env \in { [n \in EnvNames |->
                    CASE n = "FLUTTERWAVE_PUBLIC_KEY" -> a
                      [] n = "FLUTTERWAVE_SECRET_KEY" -> b
                      [] n = "FLUTTERWAVE_ENCRYPTION_KEY" -> c
                      [] n = "FLUTTERWAVE_REDIRECT_URL" -> d
                      [] n = "FLUTTERWAVE_TEST_MODE" -> e
                      [] OTHER -> Undefined] :
                  a \in EnvValues("FLUTTERWAVE_PUBLIC_KEY"),
                  b \in EnvValues("FLUTTERWAVE_SECRET_KEY"),
                  c \in EnvValues("FLUTTERWAVE_ENCRYPTION_KEY"),
                  d \in EnvValues("FLUTTERWAVE_REDIRECT_URL"),
                  e \in EnvValues("FLUTTERWAVE_TEST_MODE") }
    /\ InitProcess

FlwOperations ==
    \/ FlutterwaveApiService
    \/ \E data \in CardPaymentInputs : chargeCard(data)
    \/ \E s \in Settlements : chargeCard_settle(s)
    \/ \E data \in TokenizedChargeInputs : chargeWithToken(data)
    \/ \E s \in Settlements : chargeWithToken_settle(s)
    \/ \E type \in {"card", "account"} : validateCharge("FLW123", "12345", type)
    \/ \E s \in Settlements : validateCharge_settle(s)
    \/ getCardBIN("553188")
    \/ \E s \in Settlements : getCardBIN_settle(s)
    \/ verifyPayment("4975363")
    \/ \E s \in Settlements : verifyPayment_settle(s)
    \/ voidPreauthorization("4975363")
    \/ \E s \in Settlements : voidPreauthorization_settle(s)

Next ==
    \/ \E n \in FlwEnvNames : \E v \in EnvValues(n) : SetEnv(n, v)
    \/ FlwOperations

Spec == Init /\ [][Next]_vars

\* the mobile-money service in a process whose environment holds any value for
\* each variable the service reads
MomoInit ==
    /\ env \in { [n \in EnvNames |->
                    CASE n = "MOMO_BASE_URL" -> a
                      [] n = "MOMO_PRIMARY_KEY" -> b
                      [] n = "MOMO_USERNAME" -> c
                      [] n = "MOMO_PASSWORD" -> d
                      [] n = "MOMO_ENV" -> e
                      [] OTHER -> Undefined] :
                  a \in EnvValues("MOMO_BASE_URL"),
                  b \in EnvValues("MOMO_PRIMARY_KEY"),
                  c \in EnvValues("MOMO_USERNAME"),
                  d \in EnvValues("MOMO_PASSWORD"),
                  e \in EnvValues("MOMO_ENV") }
    /\ InitProcess

MomoOperations ==
    \/ MomoService
    \/ generateToken
    \/ \E s \in TokenSettlements : generateToken_settle(s)
    \/ \E a \in RequestPaymentInputs : requestPayment(a)
    \/ \E s \in TokenSettlements : requestPayment_token(s)
    \/ \E s \in PaymentSettlements : requestPayment_settle(s)
    \/ \E r \in {"ref-1", "ref-2"} : checkPaymentStatus(r)
    \/ \E s \in TokenSettlements : checkPaymentStatus_token(s)
    \/ \E s \in PaymentSettlements : checkPaymentStatus_settle(s)

MomoNext ==
    \/ \E n \in MomoEnvNames : \E v \in EnvValues(n) : SetEnv(n, v)
    \/ MomoOperations

MomoSpec == MomoInit /\ [][MomoNext]_vars

\* both services in a process whose environment holds, for each credential,
\* no value, an empty value or a usable one, and is left alone afterwards
StartupInit ==
    /\ env \in { [n \in EnvNames |->
                    CASE n = "FLUTTERWAVE_PUBLIC_KEY" -> a
                      [] n = "FLUTTERWAVE_SECRET_KEY" -> b
                      [] n = "FLUTTERWAVE_ENCRYPTION_KEY" -> c
                      [] n = "FLUTTERWAVE_REDIRECT_URL" -> d
                      [] n = "MOMO_PRIMARY_KEY" -> e
                      [] n = "MOMO_USERNAME" -> f
                      [] n = "MOMO_PASSWORD" -> g
                      [] OTHER -> Undefined] :
                  a \in {Undefined, "", "FLWPUBK-1"},
                  b \in {Undefined, "", "FLWSECK-1"},
                  c \in {Undefined, "", "key-of-24-bytes"},
                  d \in {Undefined, "", "https://a.example/cb"},
                  e \in {Undefined, "", "momo-primary"},
                  f \in {Undefined, "", "momo-user"},
                  g \in {Undefined, "", "momo-pass"} }
    /\ InitProcess

StartupNext ==
    \/ FlwOperations
    \/ MomoOperations

StartupSpec == StartupInit /\ [][StartupNext]_vars

----------------------------------------------------------------------------
(* Properties *)

\* the card-gateway invocation in flight has received the settlement of its request
FlwSettled == op \in FlwOps /\ Len(settled) >= 1

\* chargeCard was called with authorization mode PIN and no pin
PinWithoutPin ==
    /\ op = "chargeCard"
    /\ args.authorization.present
    /\ args.authorization.mode = PIN
    /\ ~Truthy(args.authorization.pin)

\* C1: a chargeCard invocation whose authorization has mode PIN and no pin fails
\* with a validation error, and no request is posted at any point of it.
C1_PinWithoutPinIsRejectedUnsent ==
    PinWithoutPin =>
        /\ sent = <<>>
        /\ outcome.kind # "returned"
        /\ pc = "done" => outcome.kind = "thrown"

\* C2: in each of the six card-gateway operations, a gateway body of top-level
\* status "error" ends the operation in a thrown error, never in a returned
\* value; the error carries the gateway's message verbatim when the body has one
\* (a non-empty one), and a non-empty message otherwise.  For chargeCard this is
\* so for both values of preauthorize.
C2_GatewayErrorIsThrownWithItsMessage ==
    (/\ FlwSettled
     /\ settled[1].ok \/ settled[1].hasData
     /\ settled[1].body.status = "error")
    => /\ pc = "done"
       /\ outcome.kind = "thrown"
       /\ Truthy(outcome.message)
       /\ Truthy(settled[1].body.message) => outcome.message = settled[1].body.message

C2_Witness ==
    /\ op = "chargeCard"
    /\ args.preauthorize
    /\ Len(settled) = 1
    /\ settled[1].ok
    /\ settled[1].body.status = "error"
    /\ settled[1].body.data_status = "pending"
    /\ settled[1].body.message = "Charge initiated"
    /\ outcome.kind = "thrown"
    /\ outcome.message = "Charge initiated"

\* C3: a body returned to chargeCard whose top-level status is not "error" and
\* whose data.status is neither "successful" nor "pending" ends chargeCard in a
\* failure; it is never returned to the caller.
C3_UnknownStatusIsAFailure ==
    (/\ op = "chargeCard"
     /\ Len(settled) >= 1
     /\ settled[1].ok
     /\ settled[1].body.status # "error"
     /\ settled[1].body.data_status \notin {"successful", "pending"})
    => outcome.kind = "thrown"

\* C4: what chargeCard returns carries requires_validation exactly when
\* preauthorize is true, data.status is "pending" and the body hints an
\* authorization mode; then flw_ref is the body's data.flw_ref and
\* validation_mode the hinted mode.  A pending body with preauthorize false is
\* returned as it came, without the flag.
C4_RequiresValidationExactlyWhenPreauthorizedPending ==
    (/\ op = "chargeCard"
     /\ Len(settled) >= 1
     /\ settled[1].ok
     /\ settled[1].body.status # "error")
    => /\ outcome.kind = "returned"
       /\ outcome.result.body = settled[1].body
       /\ outcome.result.requires_validation <=>
            /\ args.preauthorize
            /\ settled[1].body.data_status = "pending"
            /\ Truthy(settled[1].body.mode)
       /\ outcome.result.requires_validation =>
            /\ outcome.result.flw_ref = settled[1].body.flw_ref
            /\ outcome.result.validation_mode = settled[1].body.mode
       /\ ~outcome.result.requires_validation =>
            /\ outcome.result.flw_ref = Undefined
            /\ outcome.result.validation_mode = Undefined

C4_Witness ==
    /\ op = "chargeCard"
    /\ args.preauthorize
    /\ Len(settled) = 1
    /\ settled[1].ok
    /\ settled[1].body = Body("success", "Charge initiated", "pending", "FLW123", "otp")
    /\ outcome.kind = "returned"
    /\ outcome.result.requires_validation
    /\ outcome.result.flw_ref = "FLW123"
    /\ outcome.result.validation_mode = "otp"

\* C5: validateCharge ends in success or failure: a body that asks for
\* validation again (data.status "pending") makes it fail with the message
\* "unexpected re-validation requested."
C5_RevalidationIsAFailure ==
    (/\ op = "validateCharge"
     /\ Len(settled) >= 1
     /\ settled[1].ok
     /\ settled[1].body.status # "error"
     /\ settled[1].body.data_status = "pending")
    => /\ outcome.kind = "thrown"
       /\ outcome.message = "unexpected re-validation requested."

\* C6: an invocation of a card-gateway operation issues at most one request, and
\* when that request fails at the transport layer the invocation is over, with an
\* error thrown to the caller, no second request and nothing returned.
C6_NoRetry ==
    op \in FlwOps =>
        /\ Len(sent) <= 1
        /\ Len(settled) <= Len(sent)
        /\ (Len(settled) >= 1 /\ ~settled[1].ok) =>
              /\ pc = "done"
              /\ outcome.kind = "thrown"
              /\ Len(sent) = 1

C6_Witness ==
    /\ op = "validateCharge"
    /\ Len(settled) = 1
    /\ ~settled[1].ok
    /\ settled[1].message = "Network Error"
    /\ Len(sent) = 1
    /\ pc = "done"
    /\ outcome.kind = "thrown"
    /\ outcome.message = "Network Error"

\* C7: each configuration value in a request is the value the service captured
\* at construction: the bearer secret key of every request, the encryption key
\* and the redirect URL of chargeCard's payload, the redirect URL of
\* chargeWithToken's.
C7_RequestsUseTheConstructedConfig ==
    \A i \in 1..Len(sent) :
        op \in FlwOps =>
            /\ sent[i].headers.Authorization = <<"Bearer", flw.config.secretKey>>
            /\ op = "chargeCard" =>
                 /\ sent[i].body.client.key = flw.config.encryptionKey
                 /\ sent[i].body.client.plaintext.redirect_url = flw.config.redirectUrl
            /\ op = "chargeWithToken" =>
                 sent[i].body.redirect_url = flw.config.redirectUrl

\* C8: construction fails on an incomplete configuration.  The card-gateway
\* service is constructed exactly when public key, secret key, encryption key
\* and redirect URL are all present and non-empty, the mobile-money service
\* exactly when primary key, username and password are; so no operation runs on a
\* service that holds an empty credential.
C8_NoServiceOnIncompleteConfiguration ==
    /\ flw.state = "failed" =>
          /\ \E n \in FlwCredentialNames : ~Truthy(env[n])
          /\ flw.error = "Flutterwave configuration is incomplete"
    /\ flw.state = "ready" =>
          /\ \A n \in FlwCredentialNames : Truthy(env[n])
          /\ Truthy(flw.config.publicKey)
          /\ Truthy(flw.config.secretKey)
          /\ Truthy(flw.config.encryptionKey)
          /\ Truthy(flw.config.redirectUrl)
    /\ momo.state = "failed" =>
          /\ \E n \in MomoCredentialNames : ~Truthy(env[n])
          /\ momo.error = "MTN MOMO configuration is incomplete"
    /\ momo.state = "ready" =>
          /\ \A n \in MomoCredentialNames : Truthy(env[n])
          /\ Truthy(momo.config.primaryKey)
          /\ Truthy(momo.config.username)
          /\ Truthy(momo.config.password)
    /\ op \in FlwOps => flw.state = "ready"
    /\ op \in MomoOps => momo.state = "ready"

C8_Witness ==
    /\ flw.state = "failed"
    /\ env["FLUTTERWAVE_PUBLIC_KEY"] = "FLWPUBK-1"
    /\ env["FLUTTERWAVE_SECRET_KEY"] = "FLWSECK-1"
    /\ env["FLUTTERWAVE_ENCRYPTION_KEY"] = "key-of-24-bytes"
    /\ env["FLUTTERWAVE_REDIRECT_URL"] = ""
    /\ momo.state = "failed"
    /\ env["MOMO_PRIMARY_KEY"] = "momo-primary"
    /\ env["MOMO_USERNAME"] = "momo-user"
    /\ env["MOMO_PASSWORD"] = Undefined

\* C9: a card-gateway operation that throws has logged the failure first, and
\* what it logged is the upstream response body or the error message; no entry
\* chargeCard writes holds the card number or the CVV of the request.
C9_FailuresAreLoggedWithoutCardData ==
    op \in FlwOps =>
        /\ outcome.kind = "thrown" =>
              /\ outcome.logged \in 1..Len(log)
              /\ log[outcome.logged].level = "error"
              /\ log[outcome.logged].what \in {"response_body", "error_message"}
        /\ op = "chargeCard" =>
              \A i \in 1..Len(log) :
                  /\ args.card_number \notin log[i].strs
                  /\ args.cvv \notin log[i].strs

C9_Witness ==
    /\ op = "chargeCard"
    /\ Len(sent) = 1
    /\ sent[1].body.client.plaintext.card_number = "5531886652142950"
    /\ Len(settled) = 1
    /\ ~settled[1].ok
    /\ settled[1].hasData
    /\ outcome.kind = "thrown"
    /\ Len(log) = 1
    /\ log[1].what = "response_body"
    /\ "Invalid card" \in log[1].strs

\* C10: requestPayment and checkPaymentStatus send their requesttopay request
\* only after the token request of the same invocation has succeeded, and with
\* the token it returned as the bearer (with no bearer when it returned none);
\* if the token request fails, nothing more is sent and the invocation fails;
\* requestPayment returns a referenceId, the caller's externalReference, only
\* when the requesttopay request succeeded.
C10_PaymentFollowsItsOwnToken ==
    op \in {"requestPayment", "checkPaymentStatus"} =>
        /\ Len(sent) \in 1..2
        /\ sent[1] = tokenRequest
        /\ Len(sent) = 2 =>
              /\ Len(settled) >= 1
              /\ settled[1].ok
              /\ sent[2].headers.Authorization =
                    IF Truthy(settled[1].body.access_token)
                    THEN <<"Bearer", settled[1].body.access_token>>
                    ELSE <<>>
        /\ (Len(settled) >= 1 /\ ~settled[1].ok) =>
              /\ Len(sent) = 1
              /\ pc = "done"
              /\ outcome.kind = "thrown"
        /\ outcome.kind = "returned" =>
              /\ Len(settled) = 2
              /\ settled[2].ok
              /\ op = "requestPayment" =>
                    outcome.result = [referenceId |-> args.externalReference]

C10_Witness ==
    /\ op = "requestPayment"
    /\ args.externalReference = "ref-2"
    /\ Len(sent) = 2
    /\ Len(settled) = 2
    /\ settled[1].body.access_token = "token-B"
    /\ sent[2].headers.Authorization = <<"Bearer", "token-B">>
    /\ sent[2].body.payer.partyId = <<"2", "5", "0", "7">>
    /\ args.phoneNumber = <<"+", "2", "5", "0", "7">>
    /\ outcome.kind = "returned"
    /\ outcome.result.referenceId = "ref-2"

====
